---- MODULE Spec2Model ----
(***************************************************************************)
(* A model of ragflow_client.api.RAGflowClient: a client object holding    *)
(* base_url and headers, and one method per remote endpoint.  Every method *)
(* builds a URL and a payload, issues one call of the requests library,    *)
(* tests response.ok and either raises RAGflowAPIError or returns          *)
(* response.json().                                                        *)
(*                                                                         *)
(* Python strings that the code takes apart or puts together (URLs, file   *)
(* paths, error messages, response bodies) are sequences of lexemes; the   *)
(* lexeme "/" is the path separator.  Python values are tagged tuples.     *)
(***************************************************************************)
EXTENDS Integers, Sequences, FiniteSets, TLC

\* ------------------------------------------------------------ bounds
\* Longest file_paths list given to upload_documents.
MaxFiles == 2
\* Open-file limit of the process (RLIMIT_NOFILE): open() fails beyond it.
MaxOpen == 2
\* Threads of the caller that use the one client object.
Threads == {1, 2}

\* ------------------------------------------------------------ Python values
None == <<"None">>
PyStr(s) == <<"str", s>>
PyBool(b) == <<"bool", b>>
PyInt(n) == <<"int", n>>
PyFloat(s) == <<"float", s>>
PyList(l) == <<"list", l>>
PyDict(d) == <<"dict", d>>
\* A reference to a dict object owned by the caller (heap[o] is its content).
PyRef(o) == <<"ref", o>>
EmptyDict == <<>>

\* bool(v) of a Python value; h is the heap the references point into.
Truthy(v, h) ==
    CASE v[1] = "None" -> FALSE
      [] v[1] = "str" -> v[2] # ""
      [] v[1] = "bool" -> v[2]
      [] v[1] = "int" -> v[2] # 0
      [] v[1] = "float" -> v[2] # "0.0"
      [] v[1] = "list" -> Len(v[2]) > 0
      [] v[1] = "dict" -> DOMAIN v[2] # {}
      [] v[1] = "ref" -> DOMAIN h[v[2]] # {}

\* `a or b`
PyOr(a, b, h) == IF Truthy(a, h) THEN a ELSE b

\* The comprehension without its filter: every item kept.
DropNoneKeepsAll(d) == d

\* {k: v for k, v in d.items() if v is not None}
DropNone(d) == [k \in {k \in DOMAIN d : d[k] # None} |-> d[k]]

\* d[k] = v on a dict
SetItem(d, k, v) == [x \in DOMAIN d \cup {k} |-> IF x = k THEN v ELSE d[x]]

\* A merge where the keys d already has keep their values.
UpdateKeepingOwn(d, e) == [x \in DOMAIN d \cup DOMAIN e |-> IF x \in DOMAIN d THEN d[x] ELSE e[x]]

\* d.update(e)
Update(d, e) == [x \in DOMAIN d \cup DOMAIN e |-> IF x \in DOMAIN e THEN e[x] ELSE d[x]]

\* The dict a value denotes: a literal dict, or the caller's object.
Deref(v, h) == IF v[1] = "ref" THEN h[v[2]] ELSE v[2]

\* ------------------------------------------------------------ text
Digit == <<"0", "1", "2", "3", "4", "5", "6", "7", "8", "9">>

\* str(n) of a natural number, as its decimal digits.
RECURSIVE IntToStr(_)
IntToStr(n) == IF n < 10 THEN <<Digit[n + 1]>> ELSE IntToStr(n \div 10) \o <<Digit[(n % 10) + 1]>>

\* str(v) as requests writes a query value.
ToStr(v) ==
    CASE v[1] = "str" -> <<v[2]>>
      [] v[1] = "int" -> IntToStr(v[2])
      [] v[1] = "bool" -> IF v[2] THEN <<"True">> ELSE <<"False">>

\* str.lower() on the lexemes str(bool) produces.
Lower(s) == [i \in 1..Len(s) |-> CASE s[i] = "True" -> "true" [] s[i] = "False" -> "false" [] OTHER -> s[i]]

\* Stripping one trailing slash only, as s.removesuffix('/') does.
RStripOne(s) == IF s # <<>> /\ s[Len(s)] = "/" THEN SubSeq(s, 1, Len(s) - 1) ELSE s

\* s.rstrip('/')
RECURSIVE RStrip(_)
RStrip(s) == IF s # <<>> /\ s[Len(s)] = "/" THEN RStrip(SubSeq(s, 1, Len(s) - 1)) ELSE s

\* The whole path taken as the name, as str(fp) would give.
PathNameWhole(fp) == fp

\* Path(fp).name: the final component of the path, trailing separators dropped.
PathName(fp) ==
    LET p == RStrip(fp)
        cut == {i \in 1..Len(p) : p[i] = "/"}
        last == IF cut = {} THEN 0 ELSE CHOOSE i \in cut : \A j \in cut : j <= i
    IN  SubSeq(p, last + 1, Len(p))

\* ------------------------------------------------------------ JSON
\* json.dumps(v): the JSON value requests sends for the argument json=v.
RECURSIVE JsonDumps(_, _)
JsonDumps(v, h) ==
    CASE v[1] = "None" -> <<"null">>
      [] v[1] = "str" -> <<"string", v[2]>>
      [] v[1] = "bool" -> IF v[2] THEN <<"true">> ELSE <<"false">>
      [] v[1] = "int" -> <<"number", IntToStr(v[2])>>
      [] v[1] = "float" -> <<"number", <<v[2]>>>>
      [] v[1] = "list" -> <<"array", [i \in 1..Len(v[2]) |-> JsonDumps(v[2][i], h)]>>
      [] v[1] \in {"dict", "ref"} ->
            LET d == Deref(v, h) IN <<"object", [k \in DOMAIN d |-> JsonDumps(d[k], h)]>>

ParseFail == [ok |-> FALSE, val |-> None, rest |-> <<>>]
ParseOk(v, rest) == [ok |-> TRUE, val |-> v, rest |-> rest]

\* The characters of a JSON string up to its closing quote.
RECURSIVE ParseString(_, _)
ParseString(s, acc) ==
    IF s = <<>> THEN ParseFail
    ELSE IF Head(s) = "\"" THEN ParseOk(PyStr(acc), Tail(s))
    ELSE ParseString(Tail(s), acc \o Head(s))

RECURSIVE ParseValue(_)
RECURSIVE ParseMembers(_, _)
ParseValue(s) ==
    IF s = <<>> THEN ParseFail
    ELSE LET c == Head(s) IN
         CASE c = "null" -> ParseOk(None, Tail(s))
           [] c = "true" -> ParseOk(PyBool(TRUE), Tail(s))
           [] c = "false" -> ParseOk(PyBool(FALSE), Tail(s))
           [] \E i \in 1..10 : Digit[i] = c ->
                ParseOk(PyInt((CHOOSE i \in 1..10 : Digit[i] = c) - 1), Tail(s))
           [] c = "\"" -> ParseString(Tail(s), "")
           [] c = "{" ->
                IF Len(s) >= 2 /\ s[2] = "}" THEN ParseOk(PyDict(EmptyDict), SubSeq(s, 3, Len(s)))
                ELSE ParseMembers(Tail(s), EmptyDict)
           [] OTHER -> ParseFail

\* The members of a JSON object after "{" or ",": "key" : value, then "," or "}".
ParseMembers(s, acc) ==
    IF s = <<>> \/ Head(s) # "\"" THEN ParseFail
    ELSE LET k == ParseString(Tail(s), "") IN
         IF ~k.ok \/ k.rest = <<>> \/ Head(k.rest) # ":" THEN ParseFail
         ELSE LET v == ParseValue(Tail(k.rest)) IN
              IF ~v.ok \/ v.rest = <<>> THEN ParseFail
              ELSE LET d == SetItem(acc, k.val[2], v.val) IN
                   CASE Head(v.rest) = "}" -> ParseOk(PyDict(d), Tail(v.rest))
                     [] Head(v.rest) = "," -> ParseMembers(Tail(v.rest), d)
                     [] OTHER -> ParseFail

\* response.json(): the parsed body, or a failure (JSONDecodeError).
JsonLoads(text) ==
    LET r == ParseValue(text) IN IF r.ok /\ r.rest = <<>> THEN r ELSE ParseFail

\* ------------------------------------------------------------ the client
\* RAGflowClient.__init__
Construct(base_url_arg, api_key) ==
    [base_url |-> RStrip(base_url_arg),
     headers |-> [k \in {"Authorization", "Content-Type"} |->
                    IF k = "Authorization" THEN <<"Bearer ", api_key>> ELSE <<"application/json">>]]

\* f"{self.base_url}/api/v1/<seg>/<seg>..."
RECURSIVE Slashed(_)
Slashed(segs) == IF segs = <<>> THEN <<>> ELSE <<"/", Head(segs)>> \o Slashed(Tail(segs))
ApiUrl(base, segs) == base \o Slashed(<<"api", "v1">> \o segs)

\* What a method has ready when it calls requests: the verb, the URL, and the
\* json=, params= or files= argument (kind tells which; "none" is no payload).
Prepared(method, url, kind, data) == [method |-> method, url |-> url, kind |-> kind, data |-> data]

\* PageParams with the ordering left out: page and page_size only.
PageParamsUnordered(a) ==
    [k \in {"page", "page_size"} |->
        CASE k = "page" -> a.page
          [] k = "page_size" -> a.page_size]

\* params of the list endpoints: page, page_size, orderby, desc.
PageParams(a) ==
    [k \in {"page", "page_size", "orderby", "desc"} |->
        CASE k = "page" -> a.page
          [] k = "page_size" -> a.page_size
          [] k = "orderby" -> a.orderby
          [] k = "desc" -> PyStr(Lower(ToStr(a.desc))[1])]

\* if v: params[k] = v
SetIf(d, k, v) == IF Truthy(v, <<>>) THEN SetItem(d, k, v) ELSE d

\* ------------------------------------------------------------ the methods
\* Each method up to its call of requests: base is self.base_url, a the arguments.
create_dataset(base, a) ==
    Prepared("POST", ApiUrl(base, <<"datasets">>), "json",
        PyDict("name" :> a.name @@ "avatar" :> a.avatar @@ "description" :> a.description
            @@ "language" :> a.language @@ "embedding_model" :> a.embedding_model
            @@ "permission" :> a.permission @@ "chunk_method" :> a.chunk_method
            @@ "parser_config" :> PyOr(a.parser_config, PyDict(EmptyDict), <<>>)))

delete_datasets(base, a) ==
    Prepared("DELETE", ApiUrl(base, <<"datasets">>), "json", PyDict("ids" :> a.ids))

update_dataset(base, a) ==
    Prepared("PUT", ApiUrl(base, <<"datasets", a.dataset_id[2]>>), "json",
        PyDict(DropNone("name" :> a.name @@ "embedding_model" :> a.embedding_model
            @@ "chunk_method" :> a.chunk_method)))

list_datasets(base, a) ==
    Prepared("GET", ApiUrl(base, <<"datasets">>), "params",
        SetIf(SetIf(PageParams(a), "name", a.name), "id", a.id))

upload_documents(base, a) ==
    Prepared("POST", ApiUrl(base, <<"datasets", a.dataset_id[2], "documents">>), "files", <<>>)

update_document(base, a) ==
    Prepared("PUT", ApiUrl(base, <<"datasets", a.dataset_id[2], "documents", a.document_id[2]>>), "json",
        PyDict(DropNone("name" :> a.name @@ "chunk_method" :> a.chunk_method
            @@ "parser_config" :> a.parser_config)))

download_document(base, a) ==
    Prepared("GET", ApiUrl(base, <<"datasets", a.dataset_id[2], "documents", a.document_id[2]>>), "stream", <<>>)

list_documents(base, a) ==
    Prepared("GET", ApiUrl(base, <<"datasets", a.dataset_id[2], "documents">>), "params",
        SetIf(SetIf(SetIf(PageParams(a), "keywords", a.keywords), "id", a.id), "name", a.name))

delete_documents(base, a) ==
    Prepared("DELETE", ApiUrl(base, <<"datasets", a.dataset_id[2], "documents">>), "json",
        PyDict("ids" :> a.ids))

parse_documents(base, a) ==
    Prepared("POST", ApiUrl(base, <<"datasets", a.dataset_id[2], "chunks">>), "json",
        PyDict("document_ids" :> a.document_ids))

stop_parsing_documents(base, a) ==
    Prepared("DELETE", ApiUrl(base, <<"datasets", a.dataset_id[2], "chunks">>), "json",
        PyDict("document_ids" :> a.document_ids))

add_chunk(base, a) ==
    Prepared("POST",
        ApiUrl(base, <<"datasets", a.dataset_id[2], "documents", a.document_id[2], "chunks">>), "json",
        PyDict("content" :> a.content
            @@ "important_keywords" :> PyOr(a.important_keywords, PyList(<<>>), <<>>)))

list_chunks(base, a) ==
    Prepared("GET",
        ApiUrl(base, <<"datasets", a.dataset_id[2], "documents", a.document_id[2], "chunks">>), "params",
        SetIf(SetIf("page" :> a.page @@ "page_size" :> a.page_size, "keywords", a.keywords), "id", a.id))

delete_chunks(base, a) ==
    Prepared("DELETE",
        ApiUrl(base, <<"datasets", a.dataset_id[2], "documents", a.document_id[2], "chunks">>), "json",
        PyDict("chunk_ids" :> a.chunk_ids))

update_chunk(base, a) ==
    Prepared("PUT",
        ApiUrl(base, <<"datasets", a.dataset_id[2], "documents", a.document_id[2], "chunks", a.chunk_id[2]>>),
        "json",
        PyDict(DropNone("content" :> a.content @@ "important_keywords" :> a.important_keywords
            @@ "available" :> a.available)))

retrieve_chunks(base, a) ==
    Prepared("POST", ApiUrl(base, <<"retrieval">>), "json",
        PyDict("question" :> a.question
            @@ "dataset_ids" :> PyOr(a.dataset_ids, PyList(<<>>), <<>>)
            @@ "document_ids" :> PyOr(a.document_ids, PyList(<<>>), <<>>)
            @@ "page" :> a.page @@ "page_size" :> a.page_size
            @@ "similarity_threshold" :> a.similarity_threshold
            @@ "vector_similarity_weight" :> a.vector_similarity_weight
            @@ "top_k" :> a.top_k @@ "rerank_id" :> a.rerank_id
            @@ "keyword" :> a.keyword @@ "highlight" :> a.highlight))

create_chat(base, a) ==
    Prepared("POST", ApiUrl(base, <<"chats">>), "json",
        PyDict("name" :> a.name @@ "avatar" :> a.avatar
            @@ "dataset_ids" :> PyOr(a.dataset_ids, PyList(<<>>), <<>>)
            @@ "llm" :> PyOr(a.llm, PyDict(EmptyDict), <<>>)
            @@ "prompt" :> PyOr(a.prompt, PyDict(EmptyDict), <<>>)))

update_chat(base, a) ==
    Prepared("PUT", ApiUrl(base, <<"chats", a.chat_id[2]>>), "json",
        PyDict(DropNone("name" :> a.name @@ "avatar" :> a.avatar @@ "dataset_ids" :> a.dataset_ids
            @@ "llm" :> a.llm @@ "prompt" :> a.prompt)))

delete_chats(base, a) ==
    Prepared("DELETE", ApiUrl(base, <<"chats">>), "json", PyDict("ids" :> a.ids))

list_chats(base, a) ==
    Prepared("GET", ApiUrl(base, <<"chats">>), "params",
        SetIf(SetIf(PageParams(a), "name", a.name), "id", a.id))

create_session(base, a) ==
    Prepared("POST", ApiUrl(base, <<"chats", a.chat_id[2], "sessions">>), "json",
        PyDict(SetIf("name" :> a.name, "user_id", a.user_id)))

update_session(base, a) ==
    Prepared("PUT", ApiUrl(base, <<"chats", a.chat_id[2], "sessions", a.session_id[2]>>), "json",
        PyDict(DropNone("name" :> a.name @@ "user_id" :> a.user_id)))

list_sessions(base, a) ==
    Prepared("GET", ApiUrl(base, <<"chats", a.chat_id[2], "sessions">>), "params",
        SetIf(SetIf(SetIf(PageParams(a), "name", a.name), "id", a.id), "user_id", a.user_id))

delete_sessions(base, a) ==
    Prepared("DELETE", ApiUrl(base, <<"chats", a.chat_id[2], "sessions">>), "json",
        PyDict("ids" :> a.ids))

converse_with_chat(base, a) ==
    Prepared("POST", ApiUrl(base, <<"chats", a.chat_id[2], "completions">>), "json",
        PyDict(SetIf(SetIf("question" :> a.question @@ "stream" :> a.stream,
            "session_id", a.session_id), "user_id", a.user_id)))

\* data = params or {}: the caller's own dict when it is not empty, else a new one.
\* The heap after `if user_id: data["user_id"] = user_id`:
create_agent_session_heap(a, h) ==
    IF Truthy(a.params, h) /\ Truthy(a.user_id, h)
    THEN [h EXCEPT ![a.params[2]] = SetItem(@, "user_id", a.user_id)]
    ELSE h

create_agent_session(base, a, h) ==
    Prepared("POST", ApiUrl(base, <<"agents", a.agent_id[2], "sessions">>), "json",
        IF Truthy(a.params, h) THEN a.params
        ELSE PyDict(SetIf(EmptyDict, "user_id", a.user_id)))

converse_with_agent(base, a, h) ==
    LET own == SetIf(SetIf("question" :> a.question @@ "stream" :> a.stream,
                   "session_id", a.session_id), "user_id", a.user_id)
    IN  Prepared("POST", ApiUrl(base, <<"agents", a.agent_id[2], "completions">>), "json",
            PyDict(IF Truthy(a.extra_params, h) THEN Update(own, Deref(a.extra_params, h)) ELSE own))

list_agent_sessions(base, a) ==
    Prepared("GET", ApiUrl(base, <<"agents", a.agent_id[2], "sessions">>), "params",
        SetIf(SetIf(PageParams(a), "id", a.id), "user_id", a.user_id))

list_agents(base, a) ==
    Prepared("GET", ApiUrl(base, <<"agents">>), "params",
        SetIf(SetIf(PageParams(a), "name", a.name), "id", a.id))

\* The method named op, up to its call of requests.
BuildRequest(op, base, a, h) ==
    CASE op = "create_dataset" -> create_dataset(base, a)
      [] op = "delete_datasets" -> delete_datasets(base, a)
      [] op = "update_dataset" -> update_dataset(base, a)
      [] op = "list_datasets" -> list_datasets(base, a)
      [] op = "upload_documents" -> upload_documents(base, a)
      [] op = "update_document" -> update_document(base, a)
      [] op = "download_document" -> download_document(base, a)
      [] op = "list_documents" -> list_documents(base, a)
      [] op = "delete_documents" -> delete_documents(base, a)
      [] op = "parse_documents" -> parse_documents(base, a)
      [] op = "stop_parsing_documents" -> stop_parsing_documents(base, a)
      [] op = "add_chunk" -> add_chunk(base, a)
      [] op = "list_chunks" -> list_chunks(base, a)
      [] op = "delete_chunks" -> delete_chunks(base, a)
      [] op = "update_chunk" -> update_chunk(base, a)
      [] op = "retrieve_chunks" -> retrieve_chunks(base, a)
      [] op = "create_chat" -> create_chat(base, a)
      [] op = "update_chat" -> update_chat(base, a)
      [] op = "delete_chats" -> delete_chats(base, a)
      [] op = "list_chats" -> list_chats(base, a)
      [] op = "create_session" -> create_session(base, a)
      [] op = "update_session" -> update_session(base, a)
      [] op = "list_sessions" -> list_sessions(base, a)
      [] op = "delete_sessions" -> delete_sessions(base, a)
      [] op = "converse_with_chat" -> converse_with_chat(base, a)
      [] op = "create_agent_session" -> create_agent_session(base, a, h)
      [] op = "converse_with_agent" -> converse_with_agent(base, a, h)
      [] op = "list_agent_sessions" -> list_agent_sessions(base, a)
      [] op = "list_agents" -> list_agents(base, a)

\* What the method does to the caller's objects before its call of requests.
BuildHeap(op, a, h) == IF op = "create_agent_session" THEN create_agent_session_heap(a, h) ELSE h

\* RequestHeaders with upload_documents passing self.headers like the others.
RequestHeadersShared(op, hdrs) == hdrs

\* headers= of the call of requests: self.headers, or upload_documents' own dict.
RequestHeaders(op, hdrs) ==
    IF op = "upload_documents" THEN [k \in {"Authorization"} |-> hdrs[k]] ELSE hdrs

\* The query string requests writes for params=: None values are left out.
EncodeParams(d) == [k \in {k \in DOMAIN d : d[k] # None} |-> ToStr(d[k])]

\* The request the call of requests puts on the wire.
WireRequest(op, p, hdrs, parts, h) ==
    [method |-> p.method, url |-> p.url, headers |-> RequestHeaders(op, hdrs),
     json |-> IF p.kind = "json" THEN JsonDumps(p.data, h) ELSE <<"absent">>,
     params |-> IF p.kind = "params" THEN EncodeParams(p.data) ELSE EmptyDict,
     files |-> parts,
     stream |-> p.kind = "stream"]

\* response.ok: requests counts every status outside 400..599 as ok.
Ok(status_code) == ~(400 <= status_code /\ status_code < 600)

\* The text each method puts before the status in its error message (the source
\* has one Chinese phrase per method, such as "create dataset failed: ").
ErrorLabel(op) == op \o " failed: "

\* ErrorMessage with the body text left out of the message.
ErrorMessageNoText(op, r) == <<ErrorLabel(op)>> \o IntToStr(r.status_code) \o <<" - ">>

\* f"<label>{response.status_code} - {response.text}"
ErrorMessage(op, r) == <<ErrorLabel(op)>> \o IntToStr(r.status_code) \o <<" - ">> \o r.text

\* How a call ends.
Returned(v) == [kind |-> "return", etype |-> "", value |-> v]
Raised(etype, msg) == [kind |-> "raise", etype |-> etype, value |-> msg]
Running == [kind |-> "running", etype |-> "", value |-> <<>>]

\* ------------------------------------------------------------ inputs
OptStr == {None, PyStr("x")}
OptStrE == {None, PyStr(""), PyStr("x")}
OptDict == {None, PyDict("k" :> PyStr("v"))}
OptDictE == {None, PyDict(EmptyDict), PyDict("k" :> PyStr("v"))}
OptList == {None, PyList(<<PyStr("i1")>>)}
OptListE == {None, PyList(<<>>), PyList(<<PyStr("i1")>>)}
IdLists == {PyList(<<>>), PyList(<<PyStr("i1"), PyStr("i2")>>)}
OneIdList == {PyList(<<PyStr("i1")>>)}
Page == [page : {PyInt(1)}, page_size : {PyInt(30)}, orderby : {PyStr("create_time")}]

\* The caller's dict objects, which it passes as params and extra_params.
HeapInit ==
    [o \in {"P0", "P1", "E1", "E2"} |->
        CASE o = "P0" -> EmptyDict
          [] o = "P1" -> "k" :> PyStr("v")
          [] o = "E1" -> "x" :> PyInt(1)
          [] o = "E2" -> ("question" :> PyStr("other")) @@ ("user_id" :> PyStr("z"))]

\* Files of the caller: two that exist, one that does not.
UploadPaths == {<<"a">>, <<"d", "/", "b">>, <<"gone">>}
OutputPath == <<"out">>
Missing == <<"missing">>
FsInit ==
    [p \in UploadPaths \cup {OutputPath} |->
        CASE p = <<"a">> -> <<"A">>
          [] p = <<"d", "/", "b">> -> <<"B">>
          [] OTHER -> Missing]

RECURSIVE SeqsUpTo(_, _)
SeqsUpTo(S, n) ==
    IF n = 0 THEN {<<>>}
    ELSE LET shorter == SeqsUpTo(S, n - 1) IN
         shorter \cup {Append(q, x) : q \in shorter, x \in S}

Merge(r1, r2) == [k \in DOMAIN r1 \cup DOMAIN r2 |-> IF k \in DOMAIN r1 THEN r1[k] ELSE r2[k]]
Call(op, a) == [op |-> op, args |-> a]
CallsOf(op, A) == {Call(op, a) : a \in A}
Paged(A) == {Merge(a, pg) : a \in A, pg \in Page}

DatasetCalls ==
    CallsOf("create_dataset",
        [name : {PyStr("n")}, avatar : OptStr, description : OptStr, language : {PyStr("English")},
         embedding_model : {PyStr("BAAI/bge-zh-v1.5")}, permission : {PyStr("me")},
         chunk_method : {PyStr("naive")}, parser_config : OptDictE])
    \cup CallsOf("delete_datasets", [ids : IdLists])
    \cup CallsOf("update_dataset",
        [dataset_id : {PyStr("ds")}, name : OptStr, embedding_model : OptStr, chunk_method : OptStr])
    \cup CallsOf("list_datasets", Paged([desc : {PyBool(TRUE), PyBool(FALSE)}, name : OptStrE, id : OptStr]))

DocumentCalls ==
    CallsOf("upload_documents", [dataset_id : {PyStr("ds")}, file_paths : SeqsUpTo(UploadPaths, MaxFiles)])
    \cup CallsOf("update_document",
        [dataset_id : {PyStr("ds")}, document_id : {PyStr("doc")}, name : OptStr,
         chunk_method : OptStr, parser_config : OptDict])
    \cup CallsOf("download_document",
        [dataset_id : {PyStr("ds")}, document_id : {PyStr("doc")}, output_path : {OutputPath}])
    \cup CallsOf("list_documents",
        Paged([dataset_id : {PyStr("ds")}, desc : {PyBool(TRUE)}, keywords : OptStr, id : OptStr, name : OptStr]))
    \cup CallsOf("delete_documents", [dataset_id : {PyStr("ds")}, ids : OneIdList])
    \cup CallsOf("parse_documents", [dataset_id : {PyStr("ds")}, document_ids : OneIdList])
    \cup CallsOf("stop_parsing_documents", [dataset_id : {PyStr("ds")}, document_ids : OneIdList])

ChunkCalls ==
    CallsOf("add_chunk",
        [dataset_id : {PyStr("ds")}, document_id : {PyStr("doc")}, content : {PyStr("t")},
         important_keywords : OptListE])
    \cup CallsOf("list_chunks",
        [dataset_id : {PyStr("ds")}, document_id : {PyStr("doc")}, keywords : OptStr,
         page : {PyInt(1)}, page_size : {PyInt(1024)}, id : OptStr])
    \cup CallsOf("delete_chunks",
        [dataset_id : {PyStr("ds")}, document_id : {PyStr("doc")}, chunk_ids : OneIdList])
    \cup CallsOf("update_chunk",
        [dataset_id : {PyStr("ds")}, document_id : {PyStr("doc")}, chunk_id : {PyStr("ch")},
         content : OptStr, important_keywords : OptList,
         available : {None, PyBool(TRUE), PyBool(FALSE)}])
    \cup CallsOf("retrieve_chunks",
        [question : {PyStr("q")}, dataset_ids : OptList, document_ids : OptList,
         page : {PyInt(1)}, page_size : {PyInt(30)}, similarity_threshold : {PyFloat("0.2")},
         vector_similarity_weight : {PyFloat("0.3")}, top_k : {PyInt(1024)}, rerank_id : OptStr,
         keyword : {PyBool(FALSE)}, highlight : {PyBool(FALSE)}])

ChatCalls ==
    CallsOf("create_chat",
        [name : {PyStr("n")}, avatar : OptStr, dataset_ids : OptList, llm : OptDict, prompt : OptDict])
    \cup CallsOf("update_chat",
        [chat_id : {PyStr("c")}, name : OptStr, avatar : OptStr, dataset_ids : OptList,
         llm : OptDict, prompt : OptDict])
    \cup CallsOf("delete_chats", [ids : OneIdList])
    \cup CallsOf("list_chats", Paged([desc : {PyBool(TRUE)}, name : OptStr, id : OptStr]))
    \cup CallsOf("create_session", [chat_id : {PyStr("c")}, name : {PyStr("n")}, user_id : OptStrE])
    \cup CallsOf("update_session",
        [chat_id : {PyStr("c")}, session_id : {PyStr("s")}, name : OptStr, user_id : OptStr])
    \cup CallsOf("list_sessions",
        Paged([chat_id : {PyStr("c")}, desc : {PyBool(TRUE)}, name : OptStr, id : OptStr, user_id : OptStr]))
    \cup CallsOf("delete_sessions", [chat_id : {PyStr("c")}, ids : OneIdList])
    \cup CallsOf("converse_with_chat",
        [chat_id : {PyStr("c")}, question : {PyStr("q")}, stream : {PyBool(TRUE), PyBool(FALSE)},
         session_id : OptStr, user_id : OptStr])

AgentCalls ==
    CallsOf("create_agent_session",
        [agent_id : {PyStr("ag")}, params : {None, PyRef("P0"), PyRef("P1")}, user_id : {None, PyStr("u")}])
    \cup CallsOf("converse_with_agent",
        [agent_id : {PyStr("ag")}, question : {PyStr("q")}, stream : {PyBool(TRUE), PyBool(FALSE)},
         session_id : OptStr, user_id : OptStr,
         extra_params : {None, PyRef("P0"), PyRef("E1"), PyRef("E2")}])
    \cup CallsOf("list_agent_sessions", Paged([agent_id : {PyStr("ag")}, desc : {PyBool(TRUE)}, id : OptStr, user_id : OptStr]))
    \cup CallsOf("list_agents", Paged([desc : {PyBool(TRUE)}, name : OptStr, id : OptStr]))

Calls == DatasetCalls \cup DocumentCalls \cup ChunkCalls \cup ChatCalls \cup AgentCalls

\* What the server may answer: a status and a body.
StatusCodes == {200, 304, 404, 500}
Texts == {<<"{", "\"", "a", "\"", ":", "1", "}">>, <<"<">>}
DocBodies == {<<>>, <<"b1", "b2", "b3">>}
Responses(op) ==
    {[status_code |-> sc, text |-> tx] : sc \in {sc \in StatusCodes : ~Ok(sc)}, tx \in Texts}
    \cup {[status_code |-> sc, text |-> tx] : sc \in {sc \in StatusCodes : Ok(sc)},
            tx \in IF op = "download_document" THEN DocBodies ELSE Texts}

\* Constructor arguments.
BaseUrls == {<<"http://h">>, <<"http://h", "/", "/">>}
ApiKeys == {"key"}

\* ------------------------------------------------------------ state
VARIABLES
    ctor,        \* the arguments the client was constructed with
    base_url,    \* self.base_url
    headers,     \* self.headers
    heap,        \* the caller's dict objects
    fs,          \* the file system: path -> content, or Missing
    open_files,  \* the file descriptors the process holds open
    pc,          \* per thread: where its current call stands
    call,        \* per thread: the method called and its arguments
    prep,        \* per thread: the locals url and data / params
    files,       \* per thread: the local `files` of upload_documents, `f` of download_document
    sent,        \* per thread: the requests the current call has issued
    response,    \* per thread: the local `response`
    outcome,     \* per thread: what the call returned or raised
    chunks,      \* per thread: the chunks iter_content has yielded
    alone,       \* per thread: the request the call issues when no other call runs
    before       \* per thread: the file system and the caller's objects when the call began

vars == <<ctor, base_url, headers, heap, fs, open_files, pc, call, prep, files, sent,
          response, outcome, chunks, alone, before>>
config == <<ctor, base_url, headers>>

NoCall == Call("", <<>>)
NoPrep == Prepared("", <<>>, "", <<>>)
NoResponse == [status_code |-> 0, text |-> <<>>]
NoRequest == <<>>
NoSnapshot == [fs |-> <<>>, heap |-> <<>>]

Init ==
    /\ ctor \in [base_url : BaseUrls, api_key : ApiKeys]
    /\ base_url = Construct(ctor.base_url, ctor.api_key).base_url
    /\ headers = Construct(ctor.base_url, ctor.api_key).headers
    /\ heap = HeapInit
    /\ fs = FsInit
    /\ open_files = {}
    /\ pc = [t \in Threads |-> "idle"]
    /\ call = [t \in Threads |-> NoCall]
    /\ prep = [t \in Threads |-> NoPrep]
    /\ files = [t \in Threads |-> <<>>]
    /\ sent = [t \in Threads |-> <<>>]
    /\ response = [t \in Threads |-> NoResponse]
    /\ outcome = [t \in Threads |-> Running]
    /\ chunks = [t \in Threads |-> <<>>]
    /\ alone = [t \in Threads |-> NoRequest]
    /\ before = [t \in Threads |-> NoSnapshot]

\* The parts of the multipart body: one per opened file, (Path(fp).name, content).
FileParts(fl, f) == [i \in 1..Len(fl) |-> [name |-> fl[i].name, content |-> f[fl[i].path]]]

\* The file handles the list comprehension of upload_documents makes from file_paths.
OpenedAll(paths) == [i \in 1..Len(paths) |-> [name |-> PathName(paths[i]), fd |-> i, path |-> paths[i]]]

\* The request a call issues when it runs from start to end with no other call in
\* between (for upload_documents: when every file opens).
AloneRequest(c, base, hdrs, h, f) ==
    WireRequest(c.op, BuildRequest(c.op, base, c.args, h), hdrs,
        IF c.op = "upload_documents" THEN FileParts(OpenedAll(c.args.file_paths), f) ELSE <<>>,
        BuildHeap(c.op, c.args, h))

\* The lowest free file descriptor, as open() takes it.
FreeFds == (1..MaxOpen) \ open_files
LowestFree == CHOOSE fd \in FreeFds : \A g \in FreeFds : fd <= g

RECURSIVE Concat(_)
Concat(ss) == IF ss = <<>> THEN <<>> ELSE Head(ss) \o Concat(Tail(ss))

\* chunk_size of response.iter_content
chunk_size == 8192
Min(a, b) == IF a < b THEN a ELSE b

\* ------------------------------------------------------------ steps of a call
\* A thread calls a method: the lines before the call of requests (before the
\* first open() for upload_documents).
Invoke(t, c) ==
    /\ pc[t] = "idle"
    /\ call' = [call EXCEPT ![t] = c]
    /\ prep' = [prep EXCEPT ![t] = BuildRequest(c.op, base_url, c.args, heap)]
    /\ heap' = BuildHeap(c.op, c.args, heap)
    /\ alone' = [alone EXCEPT ![t] = AloneRequest(c, base_url, headers, heap, fs)]
    /\ before' = [before EXCEPT ![t] = [fs |-> fs, heap |-> heap]]
    /\ pc' = [pc EXCEPT ![t] = IF c.op = "upload_documents" THEN "opening" ELSE "built"]
    /\ UNCHANGED <<config, fs, open_files, files, sent, response, outcome, chunks>>

\* upload_documents: open(fp, 'rb') for the next path of file_paths.
OpenFile(t) ==
    /\ pc[t] = "opening"
    /\ Len(files[t]) < Len(call[t].args.file_paths)
    /\ LET fp == call[t].args.file_paths[Len(files[t]) + 1] IN
       /\ fs[fp] # Missing
       /\ FreeFds # {}
       /\ files' = [files EXCEPT ![t] = Append(@, [name |-> PathName(fp), fd |-> LowestFree, path |-> fp])]
       /\ open_files' = open_files \cup {LowestFree}
    /\ UNCHANGED <<config, heap, fs, pc, call, prep, sent, response, outcome, chunks, alone, before>>

\* upload_documents: open() raises (no such file, or too many open files); the
\* exception leaves the method at once.
OpenFileFail(t) ==
    /\ pc[t] = "opening"
    /\ Len(files[t]) < Len(call[t].args.file_paths)
    /\ LET fp == call[t].args.file_paths[Len(files[t]) + 1] IN fs[fp] = Missing \/ FreeFds = {}
    /\ outcome' = [outcome EXCEPT ![t] = Raised("OSError", <<>>)]
    /\ pc' = [pc EXCEPT ![t] = "done"]
    /\ UNCHANGED <<config, heap, fs, open_files, call, prep, files, sent, response, chunks, alone, before>>

ReadyToSend(t) ==
    \/ pc[t] = "built"
    \/ pc[t] = "opening" /\ Len(files[t]) = Len(call[t].args.file_paths)

\* Send, with upload_documents taking Content-Type out of self.headers itself
\* instead of building a dict of its own.
SendStrippingHeaders(t) ==
    /\ ReadyToSend(t)
    /\ \E r \in Responses(call[t].op) :
        response' = [response EXCEPT ![t] = r]
    /\ sent' = [sent EXCEPT ![t] =
                  Append(@, WireRequest(call[t].op, prep[t], headers, FileParts(files[t], fs), heap))]
    /\ pc' = [pc EXCEPT ![t] = IF call[t].op = "upload_documents" THEN "closing" ELSE "responded"]
    /\ headers' = IF call[t].op = "upload_documents" THEN [k \in {"Authorization"} |-> headers[k]] ELSE headers
    /\ UNCHANGED <<ctor, base_url, heap, fs, open_files, call, prep, files, outcome, chunks, alone, before>>

\* The call of requests.<verb> gets a response.
Send(t) ==
    /\ ReadyToSend(t)
    /\ \E r \in Responses(call[t].op) :
        response' = [response EXCEPT ![t] = r]
    /\ sent' = [sent EXCEPT ![t] =
                  Append(@, WireRequest(call[t].op, prep[t], headers, FileParts(files[t], fs), heap))]
    /\ pc' = [pc EXCEPT ![t] = IF call[t].op = "upload_documents" THEN "closing" ELSE "responded"]
    /\ UNCHANGED <<config, heap, fs, open_files, call, prep, files, outcome, chunks, alone, before>>

\* The call of requests.<verb> fails with no response (connection refused,
\* timeout): requests raises its own exception, which no method catches.
SendFail(t) ==
    /\ ReadyToSend(t)
    /\ sent' = [sent EXCEPT ![t] =
                  Append(@, WireRequest(call[t].op, prep[t], headers, FileParts(files[t], fs), heap))]
    /\ outcome' = [outcome EXCEPT ![t] = Raised("ConnectionError", <<>>)]
    /\ pc' = [pc EXCEPT ![t] = "done"]
    /\ UNCHANGED <<config, heap, fs, open_files, call, prep, files, response, chunks, alone, before>>

\* upload_documents: for _, f in files: f[1].close()
CloseFiles(t) ==
    /\ pc[t] = "closing"
    /\ open_files' = open_files \ {files[t][i].fd : i \in 1..Len(files[t])}
    /\ pc' = [pc EXCEPT ![t] = "responded"]
    /\ UNCHANGED <<config, heap, fs, call, prep, files, sent, response, outcome, chunks, alone, before>>

\* RaiseForStatus, with the request issued once more before giving up.
RaiseForStatusAfterRetry(t) ==
    /\ pc[t] = "responded"
    /\ ~Ok(response[t].status_code)
    /\ sent' = [sent EXCEPT ![t] = Append(@, @[1])]
    /\ outcome' = [outcome EXCEPT ![t] = Raised("RAGflowAPIError", ErrorMessage(call[t].op, response[t]))]
    /\ pc' = [pc EXCEPT ![t] = "done"]
    /\ UNCHANGED <<config, heap, fs, open_files, call, prep, files, response, chunks, alone, before>>

\* if not response.ok: raise RAGflowAPIError(...)
RaiseForStatus(t) ==
    /\ pc[t] = "responded"
    /\ ~Ok(response[t].status_code)
    /\ outcome' = [outcome EXCEPT ![t] = Raised("RAGflowAPIError", ErrorMessage(call[t].op, response[t]))]
    /\ pc' = [pc EXCEPT ![t] = "done"]
    /\ UNCHANGED <<config, heap, fs, open_files, call, prep, files, sent, response, chunks, alone, before>>

\* ReturnJson returning one member of the parsed body, as `return response.json()["a"]`.
ReturnJsonUnwrapped(t) ==
    /\ pc[t] = "responded"
    /\ Ok(response[t].status_code)
    /\ call[t].op # "download_document"
    /\ LET r == JsonLoads(response[t].text) IN
       outcome' = [outcome EXCEPT ![t] = IF r.ok THEN Returned(r.val[2]["a"]) ELSE Raised("JSONDecodeError", <<>>)]
    /\ pc' = [pc EXCEPT ![t] = "done"]
    /\ UNCHANGED <<config, heap, fs, open_files, call, prep, files, sent, response, chunks, alone, before>>

\* ReturnJson, with a conversation called with stream=True handing back the
\* lines of the body as they come instead of the parsed body.
ReturnJsonOrLines(t) ==
    /\ pc[t] = "responded"
    /\ Ok(response[t].status_code)
    /\ call[t].op # "download_document"
    /\ LET r == JsonLoads(response[t].text)
           streamed == /\ call[t].op \in {"converse_with_chat", "converse_with_agent"}
                       /\ call[t].args.stream = PyBool(TRUE)
       IN  outcome' = [outcome EXCEPT ![t] =
                IF streamed THEN Returned(<<"iterator", response[t].text>>)
                ELSE IF r.ok THEN Returned(r.val) ELSE Raised("JSONDecodeError", <<>>)]
    /\ pc' = [pc EXCEPT ![t] = "done"]
    /\ UNCHANGED <<config, heap, fs, open_files, call, prep, files, sent, response, chunks, alone, before>>

\* return response.json()
ReturnJson(t) ==
    /\ pc[t] = "responded"
    /\ Ok(response[t].status_code)
    /\ call[t].op # "download_document"
    /\ LET r == JsonLoads(response[t].text) IN
       outcome' = [outcome EXCEPT ![t] = IF r.ok THEN Returned(r.val) ELSE Raised("JSONDecodeError", <<>>)]
    /\ pc' = [pc EXCEPT ![t] = "done"]
    /\ UNCHANGED <<config, heap, fs, open_files, call, prep, files, sent, response, chunks, alone, before>>

\* OpenOutput with the file opened for appending ('ab'): what it held stays.
OpenOutputAppend(t) ==
    /\ pc[t] = "responded"
    /\ Ok(response[t].status_code)
    /\ call[t].op = "download_document"
    /\ FreeFds # {}
    /\ fs' = [fs EXCEPT ![call[t].args.output_path] = IF @ = Missing THEN <<>> ELSE @]
    /\ open_files' = open_files \cup {LowestFree}
    /\ files' = [files EXCEPT ![t] = <<[name |-> <<>>, fd |-> LowestFree, path |-> call[t].args.output_path]>>]
    /\ pc' = [pc EXCEPT ![t] = "writing"]
    /\ UNCHANGED <<config, heap, call, prep, sent, response, outcome, chunks, alone, before>>

\* OpenOutput with the file opened before the status of the response is looked at.
OpenOutputUnchecked(t) ==
    /\ pc[t] = "responded"
    /\ call[t].op = "download_document"
    /\ FreeFds # {}
    /\ fs' = [fs EXCEPT ![call[t].args.output_path] = <<>>]
    /\ open_files' = open_files \cup {LowestFree}
    /\ files' = [files EXCEPT ![t] = <<[name |-> <<>>, fd |-> LowestFree, path |-> call[t].args.output_path]>>]
    /\ pc' = [pc EXCEPT ![t] = "writing"]
    /\ UNCHANGED <<config, heap, call, prep, sent, response, outcome, chunks, alone, before>>

\* download_document: with open(output_path, 'wb') as f
OpenOutput(t) ==
    /\ pc[t] = "responded"
    /\ Ok(response[t].status_code)
    /\ call[t].op = "download_document"
    /\ FreeFds # {}
    /\ fs' = [fs EXCEPT ![call[t].args.output_path] = <<>>]
    /\ open_files' = open_files \cup {LowestFree}
    /\ files' = [files EXCEPT ![t] = <<[name |-> <<>>, fd |-> LowestFree, path |-> call[t].args.output_path]>>]
    /\ pc' = [pc EXCEPT ![t] = "writing"]
    /\ UNCHANGED <<config, heap, call, prep, sent, response, outcome, chunks, alone, before>>

\* download_document: open() raises (too many open files).
OpenOutputFail(t) ==
    /\ pc[t] = "responded"
    /\ Ok(response[t].status_code)
    /\ call[t].op = "download_document"
    /\ FreeFds = {}
    /\ outcome' = [outcome EXCEPT ![t] = Raised("OSError", <<>>)]
    /\ pc' = [pc EXCEPT ![t] = "done"]
    /\ UNCHANGED <<config, heap, fs, open_files, call, prep, files, sent, response, chunks, alone, before>>

\* download_document: one turn of `for chunk in response.iter_content(...)`:
\* the next chunk holds between 1 and chunk_size of the bytes not yet yielded.
WriteChunk(t) ==
    /\ pc[t] = "writing"
    /\ LET done == Len(Concat(chunks[t]))
           body == response[t].text
       IN  /\ done < Len(body)
           /\ \E n \in 1..Min(chunk_size, Len(body) - done) :
                LET chunk == SubSeq(body, done + 1, done + n) IN
                /\ chunks' = [chunks EXCEPT ![t] = Append(@, chunk)]
                /\ fs' = [fs EXCEPT ![files[t][1].path] = @ \o chunk]
    /\ UNCHANGED <<config, heap, open_files, pc, call, prep, files, sent, response, outcome, alone, before>>

\* download_document: the body is exhausted, the with block closes f, the method
\* returns None.
CloseOutput(t) ==
    /\ pc[t] = "writing"
    /\ Len(Concat(chunks[t])) = Len(response[t].text)
    /\ open_files' = open_files \ {files[t][1].fd}
    /\ outcome' = [outcome EXCEPT ![t] = Returned(None)]
    /\ pc' = [pc EXCEPT ![t] = "done"]
    /\ UNCHANGED <<config, heap, fs, call, prep, files, sent, response, chunks, alone, before>>

\* The caller takes the result; the thread is free for its next call.  The
\* locals of the finished call are gone, its open file handles are not.
Finish(t) ==
    /\ pc[t] = "done"
    /\ pc' = [pc EXCEPT ![t] = "idle"]
    /\ call' = [call EXCEPT ![t] = NoCall]
    /\ prep' = [prep EXCEPT ![t] = NoPrep]
    /\ files' = [files EXCEPT ![t] = <<>>]
    /\ sent' = [sent EXCEPT ![t] = <<>>]
    /\ response' = [response EXCEPT ![t] = NoResponse]
    /\ outcome' = [outcome EXCEPT ![t] = Running]
    /\ chunks' = [chunks EXCEPT ![t] = <<>>]
    /\ alone' = [alone EXCEPT ![t] = NoRequest]
    /\ before' = [before EXCEPT ![t] = NoSnapshot]
    /\ UNCHANGED <<config, heap, fs, open_files>>

\* ------------------------------------------------------------ specifications
\* One thread makes any sequence of calls.
Next ==
    \/ \E c \in Calls : Invoke(1, c)
    \/ OpenFile(1)
    \/ OpenFileFail(1)
    \/ Send(1)
    \/ SendFail(1)
    \/ CloseFiles(1)
    \/ RaiseForStatus(1)
    \/ ReturnJson(1)
    \/ OpenOutput(1)
    \/ OpenOutputFail(1)
    \/ WriteChunk(1)
    \/ CloseOutput(1)
    \/ Finish(1)

Spec == Init /\ [][Next]_vars

\* Two threads call methods of the one client at the same time; their steps
\* interleave in any order.  Thread 1 makes calls of ConcCalls, thread 2 calls of
\* create_agent_session with the dict object thread 1 uses too.
ConcCalls ==
    {c \in AgentCalls : c.op = "create_agent_session" /\ c.args.params # PyRef("P0")}
    \cup {c \in DocumentCalls : c.op = "download_document"}
    \cup {c \in DocumentCalls : c.op = "upload_documents" /\ c.args.file_paths \in {<<<<"a">>>>, <<<<"a">>, <<"gone">>>>}}

ConcCallsOf(t) ==
    IF t = 1 THEN ConcCalls
    ELSE {c \in ConcCalls : c.op = "create_agent_session" /\ c.args.params = PyRef("P1")}

InitConc == Init /\ ctor.base_url = <<"http://h">>

NextConc ==
    \E t \in Threads :
        \/ \E c \in ConcCallsOf(t) : Invoke(t, c)
        \/ OpenFile(t)
        \/ OpenFileFail(t)
        \/ Send(t)
        \/ SendFail(t)
        \/ CloseFiles(t)
        \/ RaiseForStatus(t)
        \/ ReturnJson(t)
        \/ OpenOutput(t)
        \/ OpenOutputFail(t)
        \/ WriteChunk(t)
        \/ CloseOutput(t)
        \/ Finish(t)

SpecConc == InitConc /\ [][NextConc]_vars

\* ------------------------------------------------------------ properties
DigitValue(c) == (CHOOSE i \in 1..10 : Digit[i] = c) - 1
RECURSIVE DecimalValue(_)
DecimalValue(ds) ==
    IF ds = <<>> THEN 0 ELSE 10 * DecimalValue(SubSeq(ds, 1, Len(ds) - 1)) + DigitValue(ds[Len(ds)])

\* A finished call that got a response.
Answered(t) == pc[t] = "done" /\ response[t] # NoResponse

\* C1: a call of any method whose response has a status that is not ok (requests:
\* 400..599) ends by raising RAGflowAPIError, never by returning; the error's
\* message holds the status code in decimal and, after " - ", the body text as
\* it came.
C1_NonSuccessRaises ==
    \A t \in Threads :
        (Answered(t) /\ ~Ok(response[t].status_code)) =>
            /\ outcome[t].kind = "raise"
            /\ outcome[t].etype = "RAGflowAPIError"
            /\ LET m == outcome[t].value IN
               /\ Len(m) >= 5
               /\ DecimalValue(SubSeq(m, 2, 4)) = response[t].status_code
               /\ m[5] = " - "
               /\ SubSeq(m, 6, Len(m)) = response[t].text

C1_Witness ==
    \E t \in Threads :
        /\ Answered(t)
        /\ call[t].op = "download_document"
        /\ response[t] = [status_code |-> 500, text |-> <<"<">>]
        /\ outcome[t].etype = "RAGflowAPIError"

\* The body {"a":1} and the value it denotes.
JsonText == <<"{", "\"", "a", "\"", ":", "1", "}">>
JsonValue == PyDict("a" :> PyInt(1))

\* C2: a call of any method but download_document that returns, returns the
\* value its response body denotes: the body {"a":1} comes back as the dict
\* {"a": 1} whenever the status is ok, and no call returns anything else than
\* the parse of its response body.
C2_ReturnsParsedBody ==
    \A t \in Threads :
        (Answered(t) /\ call[t].op # "download_document") =>
            /\ (Ok(response[t].status_code) /\ response[t].text = JsonText) =>
                    outcome[t] = Returned(JsonValue)
            /\ outcome[t].kind = "return" =>
                    /\ Ok(response[t].status_code)
                    /\ JsonLoads(response[t].text).ok
                    /\ outcome[t].value = JsonLoads(response[t].text).val

C2_Witness ==
    \E t \in Threads :
        /\ Answered(t)
        /\ call[t].op = "converse_with_agent"
        /\ response[t].status_code = 200
        /\ outcome[t] = Returned(JsonValue)

\* The parameters of each method that default to None and name a key of the
\* body or query (params of create_agent_session and extra_params of
\* converse_with_agent are bodies themselves, not keys).
OptionalParams(op) ==
    CASE op = "create_dataset" -> {"avatar", "description", "parser_config"}
      [] op = "update_dataset" -> {"name", "embedding_model", "chunk_method"}
      [] op = "list_datasets" -> {"name", "id"}
      [] op = "update_document" -> {"name", "chunk_method", "parser_config"}
      [] op = "list_documents" -> {"keywords", "id", "name"}
      [] op = "add_chunk" -> {"important_keywords"}
      [] op = "list_chunks" -> {"keywords", "id"}
      [] op = "update_chunk" -> {"content", "important_keywords", "available"}
      [] op = "retrieve_chunks" -> {"dataset_ids", "document_ids", "rerank_id"}
      [] op = "create_chat" -> {"avatar", "dataset_ids", "llm", "prompt"}
      [] op = "update_chat" -> {"name", "avatar", "dataset_ids", "llm", "prompt"}
      [] op = "list_chats" -> {"name", "id"}
      [] op = "create_session" -> {"user_id"}
      [] op = "update_session" -> {"name", "user_id"}
      [] op = "list_sessions" -> {"name", "id", "user_id"}
      [] op = "converse_with_chat" -> {"session_id", "user_id"}
      [] op = "create_agent_session" -> {"user_id"}
      [] op = "converse_with_agent" -> {"session_id", "user_id"}
      [] op = "list_agent_sessions" -> {"id", "user_id"}
      [] op = "list_agents" -> {"name", "id"}
      [] OTHER -> {}

\* The request carries key k, in its JSON body or in its query string.
KeySent(req, k) ==
    \/ req.json[1] = "object" /\ k \in DOMAIN req.json[2]
    \/ k \in DOMAIN req.params

\* The methods that build their body from a dict literal holding every parameter.
PlaceholderOps == {"create_dataset", "retrieve_chunks", "create_chat", "add_chunk"}

\* What such a method sends for a parameter left at None.
PlaceholderFor(k) ==
    CASE k \in {"avatar", "description", "rerank_id"} -> <<"null">>
      [] k \in {"parser_config", "llm", "prompt"} -> <<"object", <<>>>>
      [] k \in {"dataset_ids", "document_ids", "important_keywords"} -> <<"array", <<>>>>

\* The dict the caller passed as params / extra_params holds key k itself.
InCallersDict(t, k) ==
    \/ /\ call[t].op = "create_agent_session"
       /\ call[t].args.params # None
       /\ k \in DOMAIN Deref(call[t].args.params, before[t].heap)
    \/ /\ call[t].op = "converse_with_agent"
       /\ call[t].args.extra_params # None
       /\ k \in DOMAIN Deref(call[t].args.extra_params, before[t].heap)

\* C3 as claimed: the request of any method holds no key for an optional parameter
\* that the caller left at None.
C3_UnsetOmittedEverywhere ==
    \A t \in Threads :
        sent[t] # <<>> =>
            \A k \in OptionalParams(call[t].op) :
                call[t].args[k] = None => ~KeySent(sent[t][1], k)

\* C3 as amended: for a parameter left at None, create_dataset, retrieve_chunks,
\* create_chat and add_chunk send the key all the same, with null (avatar,
\* description, rerank_id) or an empty object or array (the others); every other
\* method sends no key for it, unless the caller's own params / extra_params
\* dict holds that key.
C3_UnsetOmittedOrPlaceholder ==
    \A t \in Threads :
        sent[t] # <<>> =>
            \A k \in OptionalParams(call[t].op) :
                call[t].args[k] = None =>
                    IF call[t].op \in PlaceholderOps
                    THEN sent[t][1].json[1] = "object"
                         /\ k \in DOMAIN sent[t][1].json[2]
                         /\ sent[t][1].json[2][k] = PlaceholderFor(k)
                    ELSE InCallersDict(t, k) \/ ~KeySent(sent[t][1], k)

C3_Witness ==
    \E t \in Threads :
        /\ sent[t] # <<>>
        /\ call[t].op = "create_dataset"
        /\ call[t].args.avatar = None
        /\ call[t].args.parser_config = None
        /\ sent[t][1].json[2]["avatar"] = <<"null">>
        /\ sent[t][1].json[2]["parser_config"] = <<"object", <<>>>>

\* C4: when a call of upload_documents is over, however it ended, none of the
\* file handles it opened is still open.
C4_UploadHandlesClosed ==
    \A t \in Threads :
        (pc[t] = "done" /\ call[t].op = "upload_documents") =>
            \A i \in 1..Len(files[t]) : files[t][i].fd \notin open_files

\* C5: a call whose request got no response (connection refused, timeout) ends by
\* raising RAGflowAPIError.
C5_NetworkFailureIsApiError ==
    \A t \in Threads :
        (pc[t] = "done" /\ sent[t] # <<>> /\ response[t] = NoResponse) =>
            outcome[t].kind = "raise" /\ outcome[t].etype = "RAGflowAPIError"

\* C6: a call of download_document that got an ok response and could open
\* output_path returns None, and the file then holds the chunks iter_content
\* yielded, in order, and nothing else; these chunks make up the response body,
\* however it was cut into chunks.
C6_FileIsConcatenationOfChunks ==
    \A t \in Threads :
        (Answered(t) /\ call[t].op = "download_document" /\ Ok(response[t].status_code)
                /\ outcome[t].etype # "OSError") =>
            /\ outcome[t] = Returned(None)
            /\ fs[call[t].args.output_path] = Concat(chunks[t])
            /\ Concat(chunks[t]) = response[t].text

C6_Witness ==
    \E t \in Threads :
        /\ Answered(t)
        /\ call[t].op = "download_document"
        /\ outcome[t] = Returned(None)
        /\ before[t].fs[OutputPath] = <<"b1", "b2", "b3">>
        /\ chunks[t] = <<<<"b1">>, <<"b2", "b3">>>>
        /\ fs[OutputPath] = <<"b1", "b2", "b3">>

\* name is the last component of path: it has no separator, path ends with it,
\* and a separator (or nothing) comes before it.
IsLastComponent(name, path) ==
    /\ name # <<>>
    /\ \A i \in 1..Len(name) : name[i] # "/"
    /\ Len(name) <= Len(path)
    /\ SubSeq(path, Len(path) - Len(name) + 1, Len(path)) = name
    /\ Len(name) = Len(path) \/ path[Len(path) - Len(name)] = "/"

\* C7: a call of upload_documents issues one request only, and when it does (every
\* path could be opened) the request carries one file part per path of
\* file_paths, in the order given, each named with the last component of its
\* path and holding that file's content.
C7_OnePartPerPath ==
    \A t \in Threads :
        (call[t].op = "upload_documents" /\ sent[t] # <<>>) =>
            /\ Len(sent[t]) = 1
            /\ LET parts == sent[t][1].files
                   paths == call[t].args.file_paths
               IN  /\ Len(parts) = Len(paths)
                   /\ \A i \in 1..Len(paths) :
                        /\ IsLastComponent(parts[i].name, paths[i])
                        /\ parts[i].content = fs[paths[i]]

C7_Witness ==
    \E t \in Threads :
        /\ call[t].op = "upload_documents"
        /\ call[t].args.file_paths = <<<<"d", "/", "b">>, <<"d", "/", "b">>>>
        /\ sent[t] # <<>>
        /\ sent[t][1].files = <<[name |-> <<"b">>, content |-> <<"B">>], [name |-> <<"b">>, content |-> <<"B">>]>>

\* C8: in every state, after any calls with any outcomes, base_url is the
\* constructor's base_url argument without its trailing slashes, and headers holds
\* exactly Authorization: Bearer <api_key> and Content-Type: application/json.
C8_ConfigUnchanged ==
    /\ base_url = RStrip(ctor.base_url)
    /\ DOMAIN headers = {"Authorization", "Content-Type"}
    /\ headers["Authorization"] = <<"Bearer ", ctor.api_key>>
    /\ headers["Content-Type"] = <<"application/json">>

C8_Witness ==
    \E t \in Threads :
        /\ pc[t] = "done"
        /\ call[t].op = "upload_documents"
        /\ outcome[t].kind = "return"
        /\ DOMAIN sent[t][1].headers = {"Authorization"}

\* C9: the request a call issues is the request it issues when it runs alone,
\* whatever other calls are in progress on the same client.
C9_SameRequestAsAlone ==
    \A t \in Threads : sent[t] # <<>> => sent[t][1] = alone[t]

\* C10: no call issues more than one request, and a call that has returned or
\* has raised RAGflowAPIError has issued exactly one.
C10_OneRequestPerCall ==
    \A t \in Threads :
        /\ Len(sent[t]) <= 1
        /\ (pc[t] = "done" /\ (outcome[t].kind = "return" \/ outcome[t].etype = "RAGflowAPIError")) =>
                Len(sent[t]) = 1

C10_Witness ==
    \E t \in Threads :
        /\ pc[t] = "done"
        /\ call[t].op = "delete_datasets"
        /\ response[t].status_code = 500
        /\ outcome[t].etype = "RAGflowAPIError"
        /\ Len(sent[t]) = 1

\* C11: every request of every method carries Authorization: Bearer <api_key>
\* with the api_key given to the constructor; a request with a JSON body carries
\* Content-Type: application/json as well; the request of upload_documents has
\* Authorization as its only header set by the client.
C11_HeadersOfEveryRequest ==
    \A t \in Threads :
        \A i \in 1..Len(sent[t]) :
            LET req == sent[t][i] IN
            /\ "Authorization" \in DOMAIN req.headers
            /\ req.headers["Authorization"] = <<"Bearer ", ctor.api_key>>
            /\ req.json # <<"absent">> =>
                    /\ "Content-Type" \in DOMAIN req.headers
                    /\ req.headers["Content-Type"] = <<"application/json">>
            /\ call[t].op = "upload_documents" => DOMAIN req.headers = {"Authorization"}

C11_Witness ==
    \E t \in Threads :
        /\ call[t].op = "upload_documents"
        /\ sent[t] # <<>>
        /\ Len(sent[t][1].files) = 1
        /\ sent[t][1].json = <<"absent">>
        /\ sent[t][1].headers = ("Authorization" :> <<"Bearer ", "key">>)

ListOps ==
    {"list_datasets", "list_documents", "list_chunks", "list_chats", "list_sessions",
     "list_agent_sessions", "list_agents"}

\* The optional filters each list method takes.
Filters(op) ==
    CASE op = "list_datasets" -> {"name", "id"}
      [] op = "list_documents" -> {"keywords", "id", "name"}
      [] op = "list_chunks" -> {"keywords", "id"}
      [] op = "list_chats" -> {"name", "id"}
      [] op = "list_sessions" -> {"name", "id", "user_id"}
      [] op = "list_agent_sessions" -> {"id", "user_id"}
      [] op = "list_agents" -> {"name", "id"}

\* C12 as stated: the query of every list method's GET holds page, page_size,
\* orderby and desc, and of the filters exactly those the caller gave (with a
\* value that is not empty).
C12_AllFourPaginationParams ==
    \A t \in Threads :
        (call[t].op \in ListOps /\ sent[t] # <<>>) =>
            /\ sent[t][1].method = "GET"
            /\ DOMAIN sent[t][1].params =
                    {"page", "page_size", "orderby", "desc"}
                    \cup {f \in Filters(call[t].op) :
                            call[t].args[f] # None /\ call[t].args[f] # PyStr("")}

\* C12, amended: list_chunks sends page and page_size only, the other list
\* methods send page, page_size, orderby and desc (desc as "true" or "false");
\* of the filters, exactly those given with a non-empty value are sent, with the
\* value given.
C12_PaginationAndFilters ==
    \A t \in Threads :
        (call[t].op \in ListOps /\ sent[t] # <<>>) =>
            LET req == sent[t][1]
                a == call[t].args
                given == {f \in Filters(call[t].op) : a[f] # None /\ a[f] # PyStr("")}
            IN  /\ req.method = "GET"
                /\ req.json = <<"absent">>
                /\ DOMAIN req.params =
                        (IF call[t].op = "list_chunks" THEN {"page", "page_size"}
                         ELSE {"page", "page_size", "orderby", "desc"}) \cup given
                /\ req.params["page"] = IntToStr(a.page[2])
                /\ req.params["page_size"] = IntToStr(a.page_size[2])
                /\ call[t].op # "list_chunks" =>
                        /\ req.params["orderby"] = <<a.orderby[2]>>
                        /\ req.params["desc"] = IF a.desc = PyBool(TRUE) THEN <<"true">> ELSE <<"false">>
                /\ \A f \in given : req.params[f] = <<a[f][2]>>

C12_Witness ==
    \E t \in Threads :
        /\ call[t].op = "list_chunks"
        /\ call[t].args.keywords = PyStr("x")
        /\ call[t].args.id = None
        /\ sent[t] # <<>>
        /\ sent[t][1].params = ("page" :> <<"1">> @@ "page_size" :> <<"1", "0", "2", "4">> @@ "keywords" :> <<"x">>)

\* The length of b without its trailing slashes.
CoreLen(b) ==
    CHOOSE k \in 0..Len(b) :
        /\ k = 0 \/ b[k] # "/"
        /\ \A i \in (k + 1)..Len(b) : b[i] = "/"

\* C13: for the base_url b given to the constructor, with or without trailing
\* slashes, the URL of every request is b without its trailing slashes followed
\* directly by /api/v1, so with one slash and no more between the base and api;
\* a client constructed from the normalized base_url builds the same URL for the
\* same call.
C13_UrlFromNormalizedBase ==
    \A t \in Threads :
        \A i \in 1..Len(sent[t]) :
            LET url == sent[t][i].url
                b == ctor.base_url
                k == CoreLen(b)
            IN  /\ Len(url) >= k + 4
                /\ SubSeq(url, 1, k) = SubSeq(b, 1, k)
                /\ SubSeq(url, k + 1, k + 4) = <<"/", "api", "/", "v1">>
                /\ \A j \in 1..(k + 3) : ~(url[j] = "/" /\ url[j + 1] = "/")
                /\ Construct(base_url, ctor.api_key).base_url = base_url
                /\ BuildRequest(call[t].op, Construct(base_url, ctor.api_key).base_url,
                                call[t].args, before[t].heap).url = url

C13_Witness ==
    \E t \in Threads :
        /\ ctor.base_url = <<"http://h", "/", "/">>
        /\ call[t].op = "list_datasets"
        /\ sent[t] # <<>>
        /\ sent[t][1].url = <<"http://h", "/", "api", "/", "v1", "/", "datasets">>

ConverseOps == {"converse_with_chat", "converse_with_agent"}

\* The keys of the extra_params the call was given (none for converse_with_chat).
ExtraKeys(t) ==
    IF call[t].op = "converse_with_agent" /\ call[t].args.extra_params # None
    THEN DOMAIN Deref(call[t].args.extra_params, before[t].heap)
    ELSE {}

\* C14: converse_with_chat and converse_with_agent, with stream True and with
\* stream False, issue one POST whose JSON body holds the flag as its field
\* stream (unless extra_params has a stream key of its own), do not ask the
\* transport to stream and read no chunks, and when they return, return the
\* parse of the whole response body.
C14_StreamIsBodyFieldOnly ==
    \A t \in Threads :
        call[t].op \in ConverseOps =>
            /\ Len(sent[t]) <= 1
            /\ chunks[t] = <<>>
            /\ sent[t] # <<>> =>
                    LET req == sent[t][1] IN
                    /\ req.method = "POST"
                    /\ ~req.stream
                    /\ req.json[1] = "object"
                    /\ "stream" \in DOMAIN req.json[2]
                    /\ "stream" \notin ExtraKeys(t) =>
                            req.json[2]["stream"] =
                                IF call[t].args.stream = PyBool(TRUE) THEN <<"true">> ELSE <<"false">>
            /\ (Answered(t) /\ Ok(response[t].status_code) /\ response[t].text = JsonText) =>
                    outcome[t] = Returned(JsonValue)
            /\ outcome[t].kind = "return" => outcome[t].value = JsonLoads(response[t].text).val

C14_Witness ==
    \E t \in Threads :
        /\ Answered(t)
        /\ call[t].op = "converse_with_chat"
        /\ call[t].args.stream = PyBool(TRUE)
        /\ sent[t][1].json[2]["stream"] = <<"true">>
        /\ response[t].status_code = 200
        /\ outcome[t] = Returned(JsonValue)

\* C15: once download_document has a response that is not ok, it never opens
\* output_path and reads no chunk: the file at output_path, existing or not, is
\* as it was when the call began, and the call ends by raising RAGflowAPIError.
C15_FailedDownloadLeavesFile ==
    \A t \in Threads :
        (call[t].op = "download_document" /\ response[t] # NoResponse
                /\ ~Ok(response[t].status_code)) =>
            /\ files[t] = <<>>
            /\ chunks[t] = <<>>
            /\ fs[call[t].args.output_path] = before[t].fs[call[t].args.output_path]
            /\ pc[t] = "done" => outcome[t].etype = "RAGflowAPIError"

C15_Witness ==
    \E t \in Threads :
        /\ Answered(t)
        /\ call[t].op = "download_document"
        /\ response[t].status_code = 404
        /\ outcome[t].etype = "RAGflowAPIError"
        /\ before[t].fs[OutputPath] = <<"b1", "b2", "b3">>
        /\ fs[OutputPath] = <<"b1", "b2", "b3">>

\* C16: while a call runs and after it has ended, every dict the caller passed
\* (params, extra_params) holds what it held when the call began.
C16_ArgumentsUnchanged ==
    \A t \in Threads : pc[t] # "idle" => heap = before[t].heap

\* C17: the body of converse_with_agent holds the keys question, stream, the
\* session_id and user_id given (not None, not empty) and every key of
\* extra_params, and nothing else; a key of extra_params has the value
\* extra_params gives it, also when it is one of the method's own four; the
\* other keys have the values of the arguments.
C17_ExtraParamsMergedLast ==
    \A t \in Threads :
        (call[t].op = "converse_with_agent" /\ sent[t] # <<>>) =>
            LET a == call[t].args
                body == sent[t][1].json[2]
                extra == IF a.extra_params = None THEN <<>> ELSE before[t].heap[a.extra_params[2]]
                own == {"question", "stream"}
                       \cup {k \in {"session_id", "user_id"} : a[k] # None /\ a[k] # PyStr("")}
            IN  /\ sent[t][1].json[1] = "object"
                /\ DOMAIN body = own \cup DOMAIN extra
                /\ \A k \in DOMAIN extra : body[k] = JsonDumps(extra[k], <<>>)
                /\ \A k \in own \ DOMAIN extra : body[k] = JsonDumps(a[k], <<>>)

C17_Witness ==
    \E t \in Threads :
        /\ call[t].op = "converse_with_agent"
        /\ call[t].args.extra_params = PyRef("E2")
        /\ call[t].args.question = PyStr("q")
        /\ call[t].args.user_id = PyStr("x")
        /\ call[t].args.session_id = None
        /\ sent[t] # <<>>
        /\ sent[t][1].json[2] = ("question" :> <<"string", "other">> @@ "user_id" :> <<"string", "z">>
                                 @@ "stream" :> JsonDumps(call[t].args.stream, <<>>))

====
